---- MODULE Spec2Model ----
(***************************************************************************)
(* BED interval generator (app.py): the Ensembl lookup normalizer          *)
(* (fetch_gene_positions), the merge/extend/sort engine (process_bed_file) *)
(* and the /generate-bed handler (generate_bed).                           *)
(*                                                                         *)
(* A Python str is modelled as a sequence of one-character strings, so     *)
(* that prefix tests, substring tests and the natural-sort tokenizer are   *)
(* computed character by character.                                        *)
(***************************************************************************)
EXTENDS Integers, Sequences, FiniteSets, TLC

VARIABLES
    op,          \* the call that produced the current state ("idle" before any)
    df_in,       \* process_bed_file / generate_bed: the records as supplied
    extend_bp,   \* process_bed_file: extend_bp argument
    remove_alt,  \* process_bed_file: remove_alt argument
    remove_fix,  \* process_bed_file: remove_fix argument
    df_after,    \* the caller's DataFrame as it is once the call has ended
    merged,      \* the returned rows (empty when the call raised)
    err,         \* "none", or the exception / HTTP error the call ended with
    symbols,     \* fetch_gene_positions: the gene_symbols argument
    reply,       \* fetch_gene_positions: what the Ensembl service answered
    found,       \* fetch_gene_positions: result["found"]
    unique,      \* fetch_gene_positions: unique_symbols, in iteration order
    not_found,   \* fetch_gene_positions: result["not_found"]
    cmp,         \* the sort-key callback: the column, its keys, its order
    again,       \* process_bed_file called on its own output: err and rows
    source,      \* fetch_gene_positions: the symbol each record of found is for
    form,        \* fetch_positions: the genes form field
    response     \* fetch_positions: the JSON body it answers with

vars == <<op, df_in, extend_bp, remove_alt, remove_fix, df_after, merged, err,
          symbols, reply, found, unique, not_found, cmp, again, source, form,
          response>>

---------------------------------------------------------------------------
(* Bounds of the model *)

MaxRecs == 2

MaxCoord == 2

MaxExtend == 2

MaxCol == 3

MaxSymbols == 2

\* Longest genes form field of a request to /fetch-positions
MaxForm == 4

---------------------------------------------------------------------------
(* Python str: ordering, startswith, substring test *)

Digits == <<"0", "1", "2", "3", "4", "5", "6", "7", "8", "9">>

\* The characters the model uses, in code-point order.
CodePoints ==
    <<" ">> \o Digits \o
    <<"A", "B", "C", "D", "E", "F", "G", "H", "I", "J", "K", "L", "M",
      "N", "O", "P", "Q", "R", "S", "T", "U", "V", "W", "X", "Y", "Z">> \o
    <<"_">> \o
    <<"a", "b", "c", "d", "e", "f", "g", "h", "i", "j", "k", "l", "m",
      "n", "o", "p", "q", "r", "s", "t", "u", "v", "w", "x", "y", "z">>

Chars == {CodePoints[i] : i \in 1..Len(CodePoints)}

Ord == [c \in Chars |-> CHOOSE i \in 1..Len(CodePoints) : CodePoints[i] = c]

IsDigit(c) == \E i \in 1..Len(Digits) : Digits[i] = c

DigitVal(c) == (CHOOSE i \in 1..Len(Digits) : Digits[i] = c) - 1

\* a < b for Python str: first differing character decides, a proper prefix
\* sorts first.
StrLess(a, b) ==
    \E i \in 1..(Len(a) + 1) :
        /\ i <= Len(b)
        /\ \A j \in 1..(i - 1) : a[j] = b[j]
        /\ \/ i = Len(a) + 1
           \/ Ord[a[i]] < Ord[b[i]]

\* A sequence given by a rule, as the list of its values (each computed once).
List(f) == f \o <<>>

\* s.startswith(p)
StartsWith(s, p) == Len(s) >= Len(p) /\ SubSeq(s, 1, Len(p)) = p

\* Series.str.contains(p) for a pattern without regex metacharacters
Contains(s, p) ==
    \E i \in 1..(Len(s) - Len(p) + 1) : SubSeq(s, i, i + Len(p) - 1) = p

\* f"{i}" for an int i >= 0
RECURSIVE DecStr(_)
DecStr(i) ==
    IF i < 10 THEN <<Digits[i + 1]>>
    ELSE DecStr(i \div 10) \o <<Digits[(i % 10) + 1]>>

\* int(run) for a run of decimal digits
RECURSIVE ParseInt(_)
ParseInt(run) ==
    IF run = <<>> THEN 0
    ELSE 10 * ParseInt(SubSeq(run, 1, Len(run) - 1)) + DigitVal(run[Len(run)])

---------------------------------------------------------------------------
(* Contig names *)

chrPrefix == <<"c", "h", "r">>

altStr == <<"a", "l", "t">>

fixStr == <<"f", "i", "x">>

\* STANDARD_CHROMOSOMES = {f"chr{i}" for i in range(1, 23)} | {"chrX", "chrY"}
STANDARD_CHROMOSOMES ==
    {chrPrefix \o DecStr(i) : i \in 1..22} \cup {chrPrefix \o <<"X">>, chrPrefix \o <<"Y">>}

\* The mutant prepends the prefix without looking at the string.
normalize_chromosome_always(seq_region) == chrPrefix \o seq_region

normalize_chromosome(seq_region) ==
    IF StartsWith(seq_region, chrPrefix) THEN seq_region
    ELSE chrPrefix \o seq_region

is_standard_chromosome(chrom) == chrom \in STANDARD_CHROMOSOMES

chr1 == chrPrefix \o <<"1">>

chr01 == chrPrefix \o <<"0", "1">>

chr2 == chrPrefix \o <<"2">>

chr10 == chrPrefix \o <<"1", "0">>

chr17 == chrPrefix \o <<"1", "7">>

\* Chromosome 17 as Ensembl writes it
bare17 == <<"1", "7">>

chrX == chrPrefix \o <<"X">>

chrY == chrPrefix \o <<"Y">>

chr1_alt == chr1 \o <<"_">> \o altStr

chr1_fix == chr1 \o <<"_">> \o fixStr

chr1_alt_fix == chr1_alt \o <<"_">> \o fixStr

chr19_GL000209v2_alt ==
    chrPrefix \o <<"1", "9", "_", "G", "L", "0", "0", "0", "2", "0", "9", "v", "2", "_">>
    \o altStr

\* The contig names the inputs use
Contigs ==
    STANDARD_CHROMOSOMES \cup
    {bare17, chr01, chr1_alt, chr1_fix, chr1_alt_fix, chr19_GL000209v2_alt}

---------------------------------------------------------------------------
(* natsort: the key index_natsorted orders by (default algorithm, ns.INT) *)

\* Length of the maximal leading run of s: all digits or all non-digits.
LeadRun(s) ==
    CHOOSE n \in 1..Len(s) :
        /\ \A j \in 1..n : IsDigit(s[j]) = IsDigit(s[1])
        /\ (n = Len(s) \/ IsDigit(s[n + 1]) # IsDigit(s[1]))

\* s split on (\d+): the alternating digit and non-digit runs, none empty.
RECURSIVE SplitRuns(_)
SplitRuns(s) ==
    IF s = <<>> THEN <<>>
    ELSE LET n == LeadRun(s)
         IN  <<SubSeq(s, 1, n)>> \o SplitRuns(SubSeq(s, n + 1, Len(s)))

StrTok(t) == [isnum |-> FALSE, num |-> 0, str |-> t]

NumTok(n) == [isnum |-> TRUE, num |-> n, str |-> <<>>]

\* The mutant keeps the whole string as one text token: plain string order.
natsort_key_lexical(s) == <<StrTok(s)>>

\* The key tuple of a string: digit runs become ints, and a key that would
\* start with a number gets an empty string in front, so that keys always
\* alternate str, int, str, ...
natsort_key(s) ==
    LET runs == SplitRuns(s)
        toks == List([i \in 1..Len(runs) |->
                    IF IsDigit(runs[i][1]) THEN NumTok(ParseInt(runs[i]))
                    ELSE StrTok(runs[i])])
    IN  IF runs # <<>> /\ IsDigit(runs[1][1]) THEN <<StrTok(<<>>)>> \o toks
        ELSE toks

\* The key of a missing value (NaN): natsort treats it as the number -inf,
\* below every number a digit run can spell; -1 stands for it.
natsort_key_nan == <<StrTok(<<>>), NumTok(-1)>>

TokLess(a, b) == IF a.isnum THEN a.num < b.num ELSE StrLess(a.str, b.str)

\* The mutant does not put a key before the longer keys it is a prefix of.
KeyLess_noprefix(k1, k2) ==
    \E i \in 1..Len(k1) :
        /\ i <= Len(k2)
        /\ \A j \in 1..(i - 1) : k1[j] = k2[j]
        /\ TokLess(k1[i], k2[i])

\* Python tuple comparison k1 < k2
KeyLess(k1, k2) ==
    \E i \in 1..(Len(k1) + 1) :
        /\ i <= Len(k2)
        /\ \A j \in 1..(i - 1) : k1[j] = k2[j]
        /\ \/ i = Len(k1) + 1
           \/ TokLess(k1[i], k2[i])

\* index_natsorted(col): the positions of col in natural order; sorted() is
\* stable, so positions with equal keys stay in their order in col.
\* keys is the sequence of the key tuples of col.
index_natsorted(keys) ==
    LET n == Len(keys)
        Before(j, i) == \/ KeyLess(keys[j], keys[i])
                        \/ (~KeyLess(keys[i], keys[j]) /\ j < i)
        pos == List([i \in 1..n |->
                   1 + Cardinality({j \in 1..n : j # i /\ Before(j, i)})])
    IN  List([r \in 1..n |-> CHOOSE i \in 1..n : pos[i] = r])

\* np.argsort(v) for a sequence v of distinct ints
argsort(v) ==
    LET n == Len(v)
        pos == List([i \in 1..n |-> 1 + Cardinality({j \in 1..n : v[j] < v[i]})])
    IN  List([r \in 1..n |-> CHOOSE i \in 1..n : pos[i] = r])

---------------------------------------------------------------------------
(* DataFrame rows.  A DataFrame is the sequence of its rows in index      *)
(* order; a row is a record over a subset of the columns chr, start, end,  *)
(* gene, and a column missing from a row is the NaN pd.DataFrame(genes)    *)
(* puts there.                                                             *)

Has(r, c) == c \in DOMAIN r

\* c in df.columns, for df = pd.DataFrame(genes): the union of the keys
HasColumn(df, c) == \E i \in 1..Len(df) : Has(df[i], c)

Row(c, s, e, g) == [chr |-> c, start |-> s, end |-> e, gene |-> g]

SetMin(S) == CHOOSE x \in S : \A y \in S : x <= y

SetMax(S) == CHOOSE x \in S : \A y \in S : x >= y

\* The permutations of 1..n, as sequences
Perms(n) == {p \in [1..n -> 1..n] : \A i, j \in 1..n : p[i] = p[j] => i = j}

---------------------------------------------------------------------------
(* process_bed_file, step by step *)

\* The mutant filters on "alt" whenever either toggle is set.
Dropped_coupled(r, ralt, rfix) ==
    Has(r, "chr") /\
    \/ ((ralt \/ rfix) /\ Contains(r.chr, altStr))
    \/ (rfix /\ Contains(r.chr, fixStr))

\* Whether the contig filter drops row r: str.contains(..., na=False), so a
\* row without a contig is kept.
Dropped(r, ralt, rfix) ==
    Has(r, "chr") /\
    \/ (ralt /\ Contains(r.chr, altStr))
    \/ (rfix /\ Contains(r.chr, fixStr))

\* df = df[~df["chr"].str.contains("alt", na=False)], then the same for "fix"
FilterContigs(df, ralt, rfix) ==
    LET Keep(r) == ~Dropped(r, ralt, rfix) IN SelectSeq(df, Keep)

\* The mutant leaves reversed coordinates as they are.
SwapRow_never(r) == r

\* One pass of the reverse-strand loop over a row with both coordinates
SwapRow(r) ==
    IF r.start > r.end THEN [r EXCEPT !.start = r.end, !.end = r.start]
    ELSE r

\* int(df.loc[idx, 'start']) > int(df.loc[idx, 'end']) raises ValueError on
\* NaN: the position of the first row the loop cannot convert, 0 if none.
FirstNaN(df) ==
    LET bad == {i \in 1..Len(df) : ~Has(df[i], "start") \/ ~Has(df[i], "end")}
    IN  IF bad = {} THEN 0 ELSE SetMin(bad)

\* The frame after the loop: every row up to the first NaN row is repaired.
FixReverse(df) ==
    LET stop == FirstNaN(df)
    IN  List([i \in 1..Len(df) |->
            IF stop = 0 \/ i < stop THEN SwapRow(df[i]) ELSE df[i]])

\* The variant takes the contig of the last member.
GroupChr_last(df, members) == df[SetMax(members)].chr

\* agg "first": the contig of the first member of the group that has one
GroupChr(df, members) == df[SetMin(members)].chr

GroupStart(df, members) == SetMin({df[i].start : i \in members})

GroupEnd(df, members) == SetMax({df[i].end : i \in members})

\* df.groupby("gene").agg({"chr": "first", "start": "min", "end": "max"})
\* .reset_index(): one row per gene, in the order of the sorted group keys;
\* rows whose gene is NaN belong to no group.
GroupMerge(df) ==
    LET genes == {df[i].gene : i \in {j \in 1..Len(df) : Has(df[j], "gene")}}
        Rank(g) == Cardinality({h \in genes : StrLess(h, g)})
        keyAt(r) == CHOOSE g \in genes : Rank(g) = r - 1
        Members(g) == {i \in 1..Len(df) : Has(df[i], "gene") /\ df[i].gene = g}
        WithChr(g) == {i \in Members(g) : Has(df[i], "chr")}
        One(g) ==
            IF WithChr(g) = {}
            THEN [start |-> GroupStart(df, Members(g)),
                  end |-> GroupEnd(df, Members(g)), gene |-> g]
            ELSE Row(GroupChr(df, WithChr(g)), GroupStart(df, Members(g)),
                     GroupEnd(df, Members(g)), g)
    IN  List([r \in 1..Cardinality(genes) |-> One(keyAt(r))])

\* The mutant does not clip.
Clip_none(v) == v

\* merged["start"].clip(lower=0), one value
Clip(v) == IF v < 0 THEN 0 ELSE v

\* if extend_bp > 0: start - extend_bp, end + extend_bp, start clipped at 0
Extend(m, bp) ==
    IF bp > 0
    THEN LET shifted == List([i \in 1..Len(m) |->
                            [m[i] EXCEPT !.start = @ - bp, !.end = @ + bp]])
         IN  List([i \in 1..Len(m) |->
                 [shifted[i] EXCEPT !.start = Clip(@)]])
    ELSE m

\* The mutant leaves the table in group order.
SortByStart_skipped(m) == {m}

\* merged.sort_values(by="start"): the default sort kind is not stable, so
\* rows with equal start come out in any order.
SortByStart(m) ==
    {List([i \in 1..Len(m) |-> m[p[i]]]) :
        p \in {q \in Perms(Len(m)) :
                  \A i, j \in 1..Len(m) :
                      i < j => m[q[i]].start <= m[q[j]].start}}

\* The key of each contig name the inputs use, computed once
KeyOf == [c \in Contigs |-> natsort_key(c)]

\* The key of the chr cell of a row
ChrKey(r) == IF Has(r, "chr") THEN KeyOf[r.chr] ELSE natsort_key_nan

\* key=lambda col: np.argsort(index_natsorted(col)) if col.name == "chr"
\* else col, for the column chr
SortKeyChr(m) ==
    argsort(index_natsorted(List([i \in 1..Len(m) |-> ChrKey(m[i])])))

\* merged.sort_values(by=["chr", "start"], key=...): a stable sort on the
\* pair (key of chr, start)
SortNatural(m) ==
    LET n == Len(m)
        k == SortKeyChr(m)
        Before(j, i) == \/ k[j] < k[i]
                        \/ (k[j] = k[i] /\ m[j].start < m[i].start)
                        \/ (k[j] = k[i] /\ m[j].start = m[i].start /\ j < i)
        pos == List([i \in 1..n |->
                   1 + Cardinality({j \in 1..n : j # i /\ Before(j, i)})])
    IN  List([r \in 1..n |-> m[CHOOSE i \in 1..n : pos[i] = r]])

RequiredCols == <<"chr", "start", "end", "gene">>

\* df.columns for a frame built from records: the union of their keys
Columns(df) == {RequiredCols[i] : i \in {j \in 1..4 : HasColumn(df, RequiredCols[j])}}

\* The variant lets a later sort order equal starts afresh.
SortByStartAgain_free(earlier, t) == SortByStart(t)

\* sort_values(by="start") on the table t, when earlier lists the sorts
\* already done (the table sorted and the result): the sort is a fixed
\* procedure, so a table sorted before comes out in the same order again;
\* any other table comes out in any order sorted by start.
SortByStartAgain(earlier, t) ==
    IF \E k \in 1..Len(earlier) : earlier[k].table = t
    THEN {earlier[k].sorted : k \in {h \in 1..Len(earlier) : earlier[h].table = t}}
    ELSE SortByStart(t)

\* The body of process_bed_file(df, bp, ralt, rfix) for a frame df with the
\* columns cols, after the sorts by start listed in earlier.  An outcome is
\* the error the call ends with, the rows it returns, the caller's frame
\* afterwards, and the table that was sorted by start with the result of
\* that sort.  With both toggles off df is still the caller's object when
\* the loop writes to it.
process_bed_file_body(df, cols, bp, ralt, rfix, earlier) ==
    LET kept == FilterContigs(df, ralt, rfix)
        fixed == FixReverse(kept)
        after == IF ralt \/ rfix THEN df ELSE fixed
        table == Extend(GroupMerge(fixed), bp)
    IN  IF \E i \in 1..4 : RequiredCols[i] \notin cols
        THEN {[err |-> "KeyError", rows |-> <<>>, after |-> df,
               table |-> <<>>, sorted |-> <<>>]}
        ELSE IF FirstNaN(kept) # 0
        THEN {[err |-> "ValueError", rows |-> <<>>, after |-> after,
               table |-> <<>>, sorted |-> <<>>]}
        ELSE {[err |-> "none", rows |-> SortNatural(s), after |-> after,
               table |-> table, sorted |-> s] :
                 s \in SortByStartAgain(earlier, table)}

\* The outcomes of one call process_bed_file(df, bp, ralt, rfix)
process_bed_file(df, bp, ralt, rfix) ==
    process_bed_file_body(df, Columns(df), bp, ralt, rfix, <<>>)

\* The columns of the frame process_bed_file returns, rows or no rows:
\* merged[["chr", "start", "end", "gene"]]
ReturnedCols == {RequiredCols[i] : i \in 1..4}

\* The outcomes of process_bed_file(first.rows, 0, ralt, rfix), the frame
\* returned by an earlier call passed back in
process_bed_file_again(first, ralt, rfix) ==
    process_bed_file_body(first.rows, ReturnedCols, 0, ralt, rfix,
                          <<[table |-> first.table, sorted |-> first.sorted]>>)

---------------------------------------------------------------------------
(* fetch_gene_positions.  gene_data is a dict: a function on the keys the  *)
(* service sent, among seq_region_name, start, end, strand, display_name.  *)

\* d.get(k, default)
Get(d, k, default) == IF k \in DOMAIN d THEN d[k] ELSE default

EmptyDict == [k \in {} |-> 0]

\* c.upper() for one character
UpperChar(c) ==
    IF Ord[c] >= Ord["a"] THEN CodePoints[Ord[c] - (Ord["a"] - Ord["A"])] ELSE c

\* s.upper()
Upper(s) == List([i \in 1..Len(s) |-> UpperChar(s[i])])

\* s.strip()
RECURSIVE Strip(_)
Strip(s) ==
    IF s = <<>> THEN s
    ELSE IF s[1] = " " THEN Strip(Tail(s))
    ELSE IF s[Len(s)] = " " THEN Strip(SubSeq(s, 1, Len(s) - 1))
    ELSE s

\* set(s.strip().upper() for s in gene_symbols if s.strip())
UniqueSymbols(gene_symbols) ==
    {Upper(Strip(gene_symbols[i])) :
        i \in {j \in 1..Len(gene_symbols) : Strip(gene_symbols[j]) # <<>>}}

\* The mutant leaves the pair as the service sent it.
OrderCoords_never(start, end) == <<start, end>>

\* if start > end: start, end = end, start
OrderCoords(start, end) == IF start > end THEN <<end, start>> ELSE <<start, end>>

\* The record appended to found for one gene_data (the same statements on
\* the batch path and on the per-symbol path)
FoundRecord(gene_data, symbol) ==
    LET chrom == normalize_chromosome(Get(gene_data, "seq_region_name", <<>>))
        se == OrderCoords(Get(gene_data, "start", 0), Get(gene_data, "end", 0))
    IN  [gene |-> Get(gene_data, "display_name", symbol),
         chr |-> chrom,
         start |-> se[1],
         end |-> se[2],
         strand |-> Get(gene_data, "strand", 1),
         is_standard |-> is_standard_chromosome(chrom)]

\* Whether the symbol yields a record.  Batch path: symbol in data and
\* data[symbol]; per-symbol path: the GET returned 200.
Resolved(r, symbol) ==
    IF r.batch = "ok"
    THEN symbol \in DOMAIN r.data /\ r.data[symbol] # EmptyDict
    ELSE r.single[symbol].status = "ok"

GeneDataOf(r, symbol) ==
    IF r.batch = "ok" THEN r.data[symbol] ELSE r.single[symbol].body

\* The variant has no handler for a per-symbol request that raises.
Unresolved_noraise(r, symbol) ==
    IF r.batch = "ok" THEN ~Resolved(r, symbol) ELSE r.single[symbol].status = "fail"

\* Whether the symbol is appended to not_found.  Batch path: the else
\* branch; per-symbol path: the else branch (status not 200) or the except
\* branch (the GET or its json() raised).
Unresolved(r, symbol) ==
    IF r.batch = "ok"
    THEN ~(symbol \in DOMAIN r.data /\ r.data[symbol] # EmptyDict)
    ELSE r.single[symbol].status \in {"fail", "raise"}

\* fetch_gene_positions(gene_symbols), with order the iteration order of
\* unique_symbols and r what the service answers: r.batch is "raise" (the
\* POST raised), "ok" (status 200, JSON r.data) or "fail" (another status;
\* r.single[symbol] is then the answer to the GET for the symbol).
fetch_gene_positions(gene_symbols, order, r) ==
    IF gene_symbols = <<>>
    THEN [err |-> "none", found |-> <<>>, not_found |-> <<>>, source |-> <<>>]
    ELSE IF r.batch = "raise"
    THEN [err |-> "500 Ensembl API error", found |-> <<>>, not_found |-> <<>>,
          source |-> <<>>]
    ELSE LET Yes(u) == Resolved(r, u)
             No(u) == Unresolved(r, u)
             hits == SelectSeq(order, Yes)
         IN  [err |-> "none",
              found |-> List([k \in 1..Len(hits) |->
                                FoundRecord(GeneDataOf(r, hits[k]), hits[k])]),
              not_found |-> SelectSeq(order, No),
              source |-> hits]

---------------------------------------------------------------------------
(* generate_bed: the /generate-bed handler on the parsed genes_json *)

\* The outcomes of generate_bed(genes, bp) for genes = json.loads(genes_json)
generate_bed(genes, bp) ==
    IF genes = <<>>
    THEN {[err |-> "400 No genes provided", rows |-> <<>>, after |-> genes]}
    ELSE IF \E i \in 1..4 : ~HasColumn(genes, RequiredCols[i])
    THEN {[err |-> "400 Missing column", rows |-> <<>>, after |-> genes]}
    ELSE {[err |-> IF o.err = "none" THEN "none" ELSE "500 " \o o.err,
           rows |-> o.rows, after |-> o.after] :
             o \in process_bed_file(genes, bp, FALSE, FALSE)}

---------------------------------------------------------------------------
(* fetch_positions: the /fetch-positions handler *)

\* genes.replace(",", "\n")
ReplaceCommas(genes) ==
    List([i \in 1..Len(genes) |-> IF genes[i] = "," THEN "\n" ELSE genes[i]])

\* s.split("\n"): the pieces between the line feeds, empty ones included
RECURSIVE SplitLines(_)
SplitLines(s) ==
    IF \A i \in 1..Len(s) : s[i] # "\n" THEN <<s>>
    ELSE LET n == CHOOSE i \in 1..Len(s) :
                      s[i] = "\n" /\ \A j \in 1..(i - 1) : s[j] # "\n"
         IN  <<SubSeq(s, 1, n - 1)>> \o SplitLines(SubSeq(s, n + 1, Len(s)))

\* gene_list: the stripped pieces that are not empty
GeneList(genes) ==
    LET pieces == SplitLines(ReplaceCommas(genes))
        stripped == List([i \in 1..Len(pieces) |-> Strip(pieces[i])])
        NotEmpty(t) == t # <<>>
    IN  SelectSeq(stripped, NotEmpty)

\* g["is_standard"]
IsStandardGene(g) == g.is_standard

\* fetch_positions(genes), with order and r as in fetch_gene_positions: the
\* HTTP error or the JSON body, and the result of fetch_gene_positions
fetch_positions(genes, order, r) ==
    LET gene_list == GeneList(genes)
        result == fetch_gene_positions(gene_list, order, r)
        NonStandard(g) == ~IsStandardGene(g)
    IN  IF gene_list = <<>>
        THEN [err |-> "400 No gene symbols provided",
              result |-> [err |-> "none", found |-> <<>>, not_found |-> <<>>,
                          source |-> <<>>],
              body |-> <<>>]
        ELSE IF result.err # "none"
        THEN [err |-> result.err, result |-> result, body |-> <<>>]
        ELSE [err |-> "none", result |-> result,
              body |-> [genes |-> SelectSeq(result.found, IsStandardGene),
                        non_standard |-> SelectSeq(result.found, NonStandard),
                        not_found |-> result.not_found]]

---------------------------------------------------------------------------
(* Inputs of the engine *)

geneA == <<"A">>

geneB == <<"B">>

geneC == <<"C">>

geneD == <<"D">>

Labels == {geneA, geneB}

Coords == 0..MaxCoord

SeqsUpTo(S, n) == UNION {[1..k -> S] : k \in 0..n}

\* Records of two genes: on chr1 with any coordinates, either way round, and
\* one-base records on an alternate contig
MergeRows ==
    {Row(chr1, s, e, g) : s \in Coords, e \in Coords, g \in Labels}
        \cup {Row(chr1_alt, s, s, g) : s \in Coords, g \in Labels}

\* The merge example: spans (10,50) and (5,40) under one label
MergeExample == <<Row(chr1, 10, 50, geneA), Row(chr1, 5, 40, geneA)>>

\* Records of two genes on one contig, any coordinates
ExtendRows == {Row(chr1, s, e, g) : s \in Coords, e \in Coords, g \in Labels}

\* The extension example: (5,50) and (100,200) extended by 10
ExtendExample == <<Row(chr1, 5, 50, geneA), Row(chr1, 100, 200, geneB)>>

\* One-base records of two genes on plain, alternate and fix contigs
FilterRows ==
    {Row(c, s, s, g) : c \in {chr1, chr1_alt, chr1_fix, chr1_alt_fix},
                       s \in Coords, g \in Labels}

\* The filtering example: a record on chr19_GL000209v2_alt
FilterExample == <<Row(chr19_GL000209v2_alt, 0, 1, geneA), Row(chr1, 1, 2, geneB)>>

\* One-base records of two genes on contigs whose natural order differs from
\* their string order (chr10, chr2) or whose keys are equal (chr1, chr01)
OrderRows ==
    {Row(c, s, s, g) : c \in {chr1, chr01, chr2, chr10}, s \in Coords, g \in Labels}

\* One record per gene, each on a standard chromosome
StandardBatches ==
    LET genes == <<geneA, geneB, geneC, geneD>>
    IN  {[i \in 1..Len(cs) |-> Row(cs[i], 0, 1, genes[i])] :
            cs \in SeqsUpTo(STANDARD_CHROMOSOMES, MaxRecs)}

\* The natural-sort example: rows on chr10, chr2, chr1 and chrX
OrderExample ==
    <<Row(chr10, 0, 1, geneA), Row(chr2, 0, 1, geneB),
      Row(chr1, 0, 1, geneC), Row(chrX, 0, 1, geneD)>>

\* Records of two genes with coordinates 0 and MaxCoord either way round, on
\* chr1 and chr01 (equal in natural order), and one-base records on an
\* alternate contig
PipelineRows ==
    {Row(c, s, e, g) : c \in {chr1, chr01}, s \in {0, MaxCoord}, e \in {0, MaxCoord},
                       g \in Labels}
        \cup {Row(chr1_alt, 0, 0, g) : g \in Labels}

\* The end-to-end example: one label on "17" (reversed) and on "chr17"
EndToEndExample ==
    <<Row(bare17, 100, 50, geneA), Row(chr17, 30, 80, geneA)>>

\* The same two records, the prefixed one first
EndToEndSwapped ==
    <<Row(chr17, 30, 80, geneA), Row(bare17, 100, 50, geneA)>>

\* genes_json: records of two genes on chr1, each with at most one of the
\* four fields left out
Without(r, c) == [k \in DOMAIN r \ {c} |-> r[k]]

GenRows ==
    ExtendRows \cup {Without(r, RequiredCols[i]) : r \in ExtendRows, i \in 1..4}

---------------------------------------------------------------------------
(* The calls *)

Init ==
    /\ op = "idle"
    /\ df_in = <<>>
    /\ extend_bp = 0
    /\ remove_alt = FALSE
    /\ remove_fix = FALSE
    /\ df_after = <<>>
    /\ merged = <<>>
    /\ err = "none"
    /\ symbols = <<>>
    /\ reply = <<>>
    /\ found = <<>>
    /\ unique = <<>>
    /\ not_found = <<>>
    /\ cmp = <<>>
    /\ again = <<>>
    /\ source = <<>>
    /\ form = <<>>
    /\ response = <<>>

LookupVars == <<symbols, reply, found, unique, not_found, source, form, response>>

\* One call process_bed_file(df, bp, ralt, rfix)
CallProcess(df, bp, ralt, rfix) ==
    /\ \E o \in process_bed_file(df, bp, ralt, rfix) :
        /\ merged' = o.rows
        /\ err' = o.err
        /\ df_after' = o.after
    /\ op' = "process_bed_file"
    /\ df_in' = df
    /\ extend_bp' = bp
    /\ remove_alt' = ralt
    /\ remove_fix' = rfix
    /\ UNCHANGED <<LookupVars, cmp, again>>

\* Calls with the default toggles and no extension, on MergeRows
ProcessMerge ==
    /\ op = "idle"
    /\ \/ \E df \in SeqsUpTo(MergeRows, MaxRecs) : CallProcess(df, 0, TRUE, TRUE)
       \/ CallProcess(MergeExample, 0, TRUE, TRUE)

\* Calls with the default toggles and any extension, on ExtendRows
ProcessExtend ==
    /\ op = "idle"
    /\ \/ \E df \in SeqsUpTo(ExtendRows, MaxRecs), bp \in 0..MaxExtend :
            CallProcess(df, bp, TRUE, TRUE)
       \/ CallProcess(ExtendExample, 10, TRUE, TRUE)

\* Calls with any toggles and no extension, on FilterRows
ProcessFilter ==
    /\ op = "idle"
    /\ \E ralt \in BOOLEAN, rfix \in BOOLEAN :
        \/ \E df \in SeqsUpTo(FilterRows, MaxRecs) : CallProcess(df, 0, ralt, rfix)
        \/ CallProcess(FilterExample, 0, ralt, rfix)

\* Calls with the default toggles on OrderRows, without extension and with
\* an extension of one base (which clips start 0 and start 1 to the same
\* value), on the standard chromosomes and on the natural-sort example
ProcessOrder ==
    /\ op = "idle"
    /\ \/ \E df \in SeqsUpTo(OrderRows, MaxRecs), bp \in {0, 1} :
            CallProcess(df, bp, TRUE, TRUE)
       \/ \E df \in StandardBatches : CallProcess(df, 0, TRUE, TRUE)
       \/ CallProcess(OrderExample, 0, TRUE, TRUE)

\* A call on PipelineRows or on an end-to-end example with any toggles, without extension or with an
\* extension of one base, and then a call on the frame it returned, with
\* the same toggles and no extension
ProcessTwice ==
    /\ op = "idle"
    /\ \E df \in SeqsUpTo(PipelineRows, MaxRecs)
                    \cup {EndToEndExample, EndToEndSwapped},
          bp \in {0, 1}, ralt \in BOOLEAN, rfix \in BOOLEAN :
        \E first \in process_bed_file(df, bp, ralt, rfix) :
            /\ first.err = "none"
            /\ \E second \in process_bed_file_again(first, ralt, rfix) :
                   again' = [err |-> second.err, rows |-> second.rows]
            /\ merged' = first.rows
            /\ err' = first.err
            /\ df_after' = first.after
            /\ df_in' = df
            /\ extend_bp' = bp
            /\ remove_alt' = ralt
            /\ remove_fix' = rfix
    /\ op' = "process_bed_file twice"
    /\ UNCHANGED <<LookupVars, cmp>>

\* One request POST /generate-bed whose genes_json parses
GenerateBed ==
    /\ op = "idle"
    /\ \E genes \in SeqsUpTo(GenRows, MaxRecs), bp \in 0..MaxExtend :
        /\ \E o \in generate_bed(genes, bp) :
            /\ merged' = o.rows
            /\ err' = o.err
            /\ df_after' = o.after
        /\ df_in' = genes
        /\ extend_bp' = bp
    /\ op' = "generate_bed"
    /\ remove_alt' = FALSE
    /\ remove_fix' = FALSE
    /\ UNCHANGED <<LookupVars, cmp, again>>

\* One request POST /generate-bed whose genes_json is not JSON
GenerateBedBadJson ==
    /\ op = "idle"
    /\ op' = "generate_bed"
    /\ err' = "400 Invalid JSON format"
    /\ UNCHANGED <<df_in, extend_bp, remove_alt, remove_fix, df_after, merged,
                   LookupVars, cmp, again>>

SpecMerge == Init /\ [][ProcessMerge]_vars

SpecExtend == Init /\ [][ProcessExtend]_vars

SpecFilter == Init /\ [][ProcessFilter]_vars

SpecOrder == Init /\ [][ProcessOrder]_vars

SpecPipeline == Init /\ [][ProcessTwice]_vars

SpecGenerate == Init /\ [][GenerateBed \/ GenerateBedBadJson]_vars

---------------------------------------------------------------------------
(* Inputs of the lookup and of the sort key *)

symA1 == <<"A", "1">>

symB2 == <<"B", "2">>

RawSymbols ==
    {<<>>, <<" ">>, <<"a", "1">>, symA1, <<" ", "a", "1", " ">>, <<"b", "2">>}

\* Every dict over the five keys: a full dict cut down to a subset of them
GeneKeys == {"seq_region_name", "start", "end", "strand", "display_name"}

GeneDicts ==
    {[k \in keys |-> full[k]] :
        keys \in SUBSET GeneKeys,
        full \in [seq_region_name : {<<>>, <<"1">>, chr1, <<"2", "3">>, chrX},
                  start : Coords, end : Coords, strand : {1, -1},
                  display_name : {<<"T", "P">>}]}

\* Two dicts for requests of several symbols
SampleDicts ==
    {[seq_region_name |-> <<"1">>, start |-> MaxCoord, end |-> 0, strand |-> -1,
      display_name |-> symA1],
     [seq_region_name |-> chr1_alt, start |-> 0, end |-> MaxCoord]}

SingleAnswers(dicts) ==
    {[status |-> "ok", body |-> d] : d \in dicts}
    \cup {[status |-> "fail", body |-> EmptyDict], [status |-> "raise", body |-> EmptyDict]}

\* One call fetch_gene_positions(gene_symbols)
CallFetch(gene_symbols, order, r) ==
    LET o == fetch_gene_positions(gene_symbols, order, r)
    IN  /\ op' = "fetch_gene_positions"
        /\ symbols' = gene_symbols
        /\ unique' = order
        /\ reply' = r
        /\ found' = o.found
        /\ not_found' = o.not_found
        /\ source' = o.source
        /\ err' = o.err
        /\ UNCHANGED <<df_in, extend_bp, remove_alt, remove_fix, df_after, merged, cmp,
                      again, form, response>>

NoSingle == [u \in {} |-> 0]

\* Requests for one symbol, answered with any gene_data
FetchOne ==
    /\ op = "idle"
    /\ \E raw \in RawSymbols :
        LET us == UniqueSymbols(<<raw>>)
        IN  \E order \in [1..Cardinality(us) -> us] :
                \/ \E data \in UNION {[d -> GeneDicts] : d \in SUBSET us} :
                       CallFetch(<<raw>>, order, [batch |-> "ok", data |-> data, single |-> NoSingle])
                \/ \E single \in [us -> SingleAnswers(GeneDicts)] :
                       CallFetch(<<raw>>, order, [batch |-> "fail", data |-> EmptyDict, single |-> single])

\* Requests for up to MaxSymbols symbols, answered from SampleDicts
FetchMany ==
    /\ op = "idle"
    /\ \E gene_symbols \in SeqsUpTo(RawSymbols, MaxSymbols) :
        LET us == UniqueSymbols(gene_symbols)
            n == Cardinality(us)
        IN  \E order \in {p \in [1..n -> us] : \A i, j \in 1..n : p[i] = p[j] => i = j} :
                \/ \E data \in UNION {[d -> SampleDicts \cup {EmptyDict}] : d \in SUBSET us} :
                       CallFetch(gene_symbols, order, [batch |-> "ok", data |-> data, single |-> NoSingle])
                \/ \E single \in [us -> SingleAnswers(SampleDicts \cup {EmptyDict})] :
                       CallFetch(gene_symbols, order, [batch |-> "fail", data |-> EmptyDict, single |-> single])
                \/ CallFetch(gene_symbols, order, [batch |-> "raise", data |-> EmptyDict, single |-> NoSingle])

SpecLookup == Init /\ [][FetchOne \/ FetchMany]_vars

\* The characters of a genes form field: two letters, a blank and the two
\* separators
FormChars == {"a", "b", " ", ",", "\n"}

\* One request POST /fetch-positions, answered from SampleDicts
FetchPositions ==
    /\ op = "idle"
    /\ \E genes \in SeqsUpTo(FormChars, MaxForm) :
        LET gene_list == GeneList(genes)
            us == UniqueSymbols(gene_list)
            n == Cardinality(us)
            Answer(order, r) ==
                LET o == fetch_positions(genes, order, r)
                IN  /\ form' = genes
                    /\ symbols' = gene_list
                    /\ unique' = order
                    /\ reply' = r
                    /\ found' = o.result.found
                    /\ not_found' = o.result.not_found
                    /\ source' = o.result.source
                    /\ response' = o.body
                    /\ err' = o.err
        IN  \E order \in {p \in [1..n -> us] : \A i, j \in 1..n : p[i] = p[j] => i = j} :
                \/ \E data \in UNION {[d -> SampleDicts \cup {EmptyDict}] : d \in SUBSET us} :
                       Answer(order, [batch |-> "ok", data |-> data, single |-> NoSingle])
                \/ \E single \in [us -> SingleAnswers(SampleDicts \cup {EmptyDict})] :
                       Answer(order, [batch |-> "fail", data |-> EmptyDict, single |-> single])
                \/ Answer(order, [batch |-> "raise", data |-> EmptyDict, single |-> NoSingle])
    /\ op' = "fetch_positions"
    /\ UNCHANGED <<df_in, extend_bp, remove_alt, remove_fix, df_after, merged, cmp,
                   again>>

SpecFetchPositions == Init /\ [][FetchPositions]_vars

\* The strings the sort key is tried on
CmpStrings ==
    {<<>>, chrPrefix, chr1, chr01, chr2, chr10, <<"1", "7">>, chrX,
     chr1 \o <<"a">>}

\* One call of the sort key on a chr column: natsort's keys, the order
\* index_natsorted gives, and np.argsort of it
SortKeyCall ==
    /\ op = "idle"
    /\ \E col \in SeqsUpTo(CmpStrings, MaxCol) :
        LET keys == List([i \in 1..Len(col) |-> natsort_key(col[i])])
            order == index_natsorted(keys)
        IN  cmp' = [col |-> col, keys |-> keys, order |-> order, rank |-> argsort(order)]
    /\ op' = "sort_key"
    /\ UNCHANGED <<df_in, extend_bp, remove_alt, remove_fix, df_after, merged, err,
                   LookupVars, again>>

SpecNatsort == Init /\ [][SortKeyCall]_vars

---------------------------------------------------------------------------
(* Properties of process_bed_file *)

Returned == op = "process_bed_file" /\ err = "none"

\* The claims' own reading of the contig filter and of the merge
ClaimDropped(r) ==
    \/ (remove_alt /\ Contains(r.chr, altStr))
    \/ (remove_fix /\ Contains(r.chr, fixStr))

Retained == {i \in 1..Len(df_in) : ~ClaimDropped(df_in[i])}

RetainedOf(g) == {i \in Retained : df_in[i].gene = g}

Lo(r) == IF r.start <= r.end THEN r.start ELSE r.end

Hi(r) == IF r.start <= r.end THEN r.end ELSE r.start

SpanStart(g) == SetMin({Lo(df_in[i]) : i \in RetainedOf(g)})

SpanEnd(g) == SetMax({Hi(df_in[i]) : i \in RetainedOf(g)})

SameKey(a, b) ==
    /\ ~KeyLess(natsort_key(a), natsort_key(b))
    /\ ~KeyLess(natsort_key(b), natsort_key(a))

\* C1 as stated: consecutive output rows are in strict natural order of
\* their contigs, or have the same contig string and ascending starts.
C1_OrderedByContigString ==
    Returned =>
        \A i \in 1..(Len(merged) - 1) :
            \/ KeyLess(natsort_key(merged[i].chr), natsort_key(merged[i + 1].chr))
            \/ /\ merged[i].chr = merged[i + 1].chr
               /\ merged[i].start <= merged[i + 1].start

\* C1, amended: consecutive output rows are in strict natural order of
\* their contigs, or their contigs compare equal in natural order (the same
\* string, or strings that differ only in leading zeros of a digit run)
\* and their starts ascend.
C1_OrderedByCompositeKey ==
    Returned =>
        \A i \in 1..(Len(merged) - 1) :
            \/ KeyLess(natsort_key(merged[i].chr), natsort_key(merged[i + 1].chr))
            \/ /\ SameKey(merged[i].chr, merged[i + 1].chr)
               /\ merged[i].start <= merged[i + 1].start

\* Two rows of one contig come out by extended start, against label order.
C1_Witness ==
    /\ Returned
    /\ extend_bp > 0
    /\ Len(merged) = 2
    /\ merged[1].chr = merged[2].chr
    /\ merged[1].start < merged[2].start
    /\ StrLess(merged[2].gene, merged[1].gene)

\* C2: without extension the output has exactly one row per label of the
\* retained records and no other row, with start the minimum and end the
\* maximum of the retained records' ordered coordinates.
C2_MergePerLabel ==
    (Returned /\ extend_bp = 0) =>
        /\ {merged[k].gene : k \in 1..Len(merged)} = {df_in[i].gene : i \in Retained}
        /\ Len(merged) = Cardinality({df_in[i].gene : i \in Retained})
        /\ \A k \in 1..Len(merged) :
            /\ merged[k].start = SpanStart(merged[k].gene)
            /\ merged[k].end = SpanEnd(merged[k].gene)

\* Spans (10,50) and (5,40) under one label give exactly (5,50).
C2_Witness ==
    /\ Returned
    /\ df_in = MergeExample
    /\ merged = <<Row(chr1, 5, 50, geneA)>>

\* C3: with extend_bp > 0 every output row is its label's merged span with
\* start lowered by extend_bp and clamped at 0 on its own, and end raised by
\* extend_bp; with extend_bp = 0 it is the merged span.
C3_ExtendClamp ==
    Returned =>
        \A k \in 1..Len(merged) :
            LET ms == SpanStart(merged[k].gene)
                me == SpanEnd(merged[k].gene)
            IN  IF extend_bp > 0
                THEN /\ merged[k].start = (IF ms - extend_bp < 0 THEN 0 ELSE ms - extend_bp)
                     /\ merged[k].end = me + extend_bp
                ELSE merged[k].start = ms /\ merged[k].end = me

\* (5,50) extended by 10 is (0,60), and (100,200) is (90,210).
C3_Witness ==
    /\ Returned
    /\ extend_bp = 10
    /\ merged = <<Row(chr1, 0, 60, geneA), Row(chr1, 90, 210, geneB)>>

\* C4: a record is dropped iff remove_alt is set and its contig contains
\* "alt", or remove_fix is set and its contig contains "fix"; the output is
\* made of the other records alone.
C4_SubstringFilter ==
    Returned =>
        /\ {merged[k].gene : k \in 1..Len(merged)} = {df_in[i].gene : i \in Retained}
        /\ \A k \in 1..Len(merged) :
            /\ \E i \in RetainedOf(merged[k].gene) : merged[k].chr = df_in[i].chr
            /\ merged[k].start = SpanStart(merged[k].gene)
            /\ merged[k].end = SpanEnd(merged[k].gene)
            /\ remove_alt => ~Contains(merged[k].chr, altStr)
            /\ remove_fix => ~Contains(merged[k].chr, fixStr)

\* With remove_alt set and remove_fix clear, the record on chr1_alt is
\* dropped and the record on chr1_fix is kept.
C4_Witness ==
    /\ Returned
    /\ remove_alt /\ ~remove_fix
    /\ Len(df_in) = 2
    /\ df_in[1].chr = chr1_alt /\ df_in[2].chr = chr1_fix
    /\ df_in[1].gene # df_in[2].gene
    /\ merged = <<df_in[2]>>

\* C6: a non-empty batch whose records are all dropped by the contig filter
\* ends in EmptyInputError, not in a returned (empty) table.
C6_EmptyAfterFilterFails ==
    (op = "process_bed_file" /\ df_in # <<>> /\ Retained = {}) =>
        err = "EmptyInputError"

\* C5: if some record of the batch lacks a required field, generate_bed ends
\* with 400 Missing column and produces no row.
C5_MissingFieldRejected ==
    (op = "generate_bed" /\
     \E i \in 1..Len(df_in), c \in 1..4 : ~Has(df_in[i], RequiredCols[c])) =>
        /\ err = "400 Missing column"
        /\ merged = <<>>

\* The 24 standard contigs in the conventional order chr1..chr22, chrX, chrY
StandardOrder ==
    List([i \in 1..24 |->
            IF i <= 22 THEN chrPrefix \o DecStr(i)
            ELSE IF i = 23 THEN chrX ELSE chrY])

StdIndex(c) == CHOOSE i \in 1..24 : StandardOrder[i] = c

IsStd(c) == \E i \in 1..24 : StandardOrder[i] = c

\* "chr" followed by digits only, and the number the digits spell
HasNumSuffix(c) ==
    /\ StartsWith(c, chrPrefix)
    /\ Len(c) > 3
    /\ \A k \in 4..Len(c) : IsDigit(c[k])

SuffixVal(c) == ParseInt(SubSeq(c, 4, Len(c)))

\* C9: the output lists numeric-suffixed contigs by the value of the suffix
\* and the standard contigs in the order chr1 < chr2 < ... < chr22 < chrX <
\* chrY.
C9_NaturalContigOrder ==
    Returned =>
        \A i, j \in 1..Len(merged) :
            i < j =>
                /\ (IsStd(merged[i].chr) /\ IsStd(merged[j].chr))
                       => StdIndex(merged[i].chr) <= StdIndex(merged[j].chr)
                /\ (HasNumSuffix(merged[i].chr) /\ HasNumSuffix(merged[j].chr))
                       => SuffixVal(merged[i].chr) <= SuffixVal(merged[j].chr)

\* Rows given on chr10, chr2, chr1, chrX come out on chr1, chr2, chr10, chrX.
C9_Witness ==
    /\ Returned
    /\ df_in = OrderExample
    /\ [k \in 1..Len(merged) |-> merged[k].chr] = <<chr1, chr2, chr10, chrX>>

---------------------------------------------------------------------------
(* Properties of the natural-sort key *)

Sorted == op = "sort_key"

Less(i, j) == KeyLess(cmp.keys[i], cmp.keys[j])

\* A string with the leading zeros of every digit run removed
RECURSIVE JoinRuns(_)
JoinRuns(runs) ==
    IF runs = <<>> THEN <<>>
    ELSE (IF IsDigit(runs[1][1]) THEN DecStr(ParseInt(runs[1])) ELSE runs[1])
         \o JoinRuns(Tail(runs))

Canon(s) == JoinRuns(SplitRuns(s))

\* C10 as stated: the comparator is a total order on contig strings, so two
\* distinct strings are strictly ordered one way or the other.
C10_DistinctStringsOrdered ==
    Sorted =>
        \A i, j \in 1..Len(cmp.col) :
            cmp.col[i] # cmp.col[j] => (Less(i, j) \/ Less(j, i))

\* C10, amended: the comparator is a total preorder on contig strings.  It
\* is transitive, never orders two strings both ways, never orders a string
\* against itself, and leaves two strings unordered (equal) exactly when
\* they are the same once leading zeros of digit runs are removed, as
\* "chr1" and "chr01"; index_natsorted lists a column in that order, equal
\* strings in their given order.
C10_TotalPreorder ==
    Sorted =>
        /\ \A i, j, k \in 1..Len(cmp.col) : (Less(i, j) /\ Less(j, k)) => Less(i, k)
        /\ \A i, j \in 1..Len(cmp.col) :
            /\ ~(Less(i, j) /\ Less(j, i))
            /\ (~Less(i, j) /\ ~Less(j, i)) <=> (Canon(cmp.col[i]) = Canon(cmp.col[j]))
        /\ \A r, q \in 1..Len(cmp.order) :
            r < q => /\ ~Less(cmp.order[q], cmp.order[r])
                     /\ Less(cmp.order[r], cmp.order[q]) \/ cmp.order[r] < cmp.order[q]

\* "chr1" and "chr01" compare equal, both before "chr2".
C10_Witness ==
    /\ Sorted
    /\ cmp.col = <<chr2, chr01, chr1>>
    /\ cmp.order = <<2, 3, 1>>
    /\ ~Less(2, 3) /\ ~Less(3, 2)

---------------------------------------------------------------------------
(* Properties of fetch_gene_positions *)

Fetched == op = "fetch_gene_positions" /\ err = "none"

\* A found record handed to the normalizer again
AsGeneData(f) ==
    [seq_region_name |-> f.chr, start |-> f.start, end |-> f.end,
     strand |-> f.strand, display_name |-> f.gene]

\* The symbols that yielded the records of found, in the order of found
Hits == LET Yes(u) == Resolved(reply, u) IN SelectSeq(unique, Yes)

RawOf(k) == GeneDataOf(reply, Hits[k])

\* C7: normalizing a normalized record changes nothing: contig, start, end,
\* strand and is_standard stay as they are.
C7_NormalizeIdempotent ==
    Fetched =>
        \A k \in 1..Len(found) :
            FoundRecord(AsGeneData(found[k]), found[k].gene) = found[k]

\* A record whose raw contig is empty and whose raw start exceeds its end
C7_Witness ==
    /\ Fetched
    /\ Len(found) = 1
    /\ Get(RawOf(1), "seq_region_name", chr1) = <<>>
    /\ Get(RawOf(1), "start", 0) > Get(RawOf(1), "end", 0)
    /\ found[1].chr = chrPrefix

\* C8: every record of found has start <= end, a contig starting with
\* "chr", is_standard true iff the contig is one of chr1..chr22, chrX, chrY,
\* the strand of the raw record and the raw record's coordinates as an
\* unordered pair, on the batch path and on the per-symbol path.
C8_NormalizedRecord ==
    Fetched =>
        /\ Len(found) = Len(Hits)
        /\ \A k \in 1..Len(found) :
            /\ found[k].start <= found[k].end
            /\ StartsWith(found[k].chr, chrPrefix)
            /\ found[k].is_standard <=> IsStd(found[k].chr)
            /\ found[k].strand = Get(RawOf(k), "strand", 1)
            /\ {found[k].start, found[k].end}
                   = {Get(RawOf(k), "start", 0), Get(RawOf(k), "end", 0)}

\* On the per-symbol path, a reverse-strand record on a bare contig
C8_Witness ==
    /\ Fetched
    /\ reply.batch = "fail"
    /\ Len(found) = 1
    /\ Get(RawOf(1), "start", 0) > Get(RawOf(1), "end", 0)
    /\ Get(RawOf(1), "seq_region_name", chr1) = <<"1">>
    /\ Get(RawOf(1), "strand", 1) = -1
    /\ found[1].is_standard

---------------------------------------------------------------------------
(* Properties of fetch_positions *)

Answered == op = "fetch_positions" /\ err = "none"

Count(seq, x) == Cardinality({i \in 1..Len(seq) : seq[i] = x})

\* The distinct stripped, upper-cased, non-empty requested symbols
Requested ==
    {Upper(Strip(symbols[i])) : i \in {j \in 1..Len(symbols) : Strip(symbols[j]) # <<>>}}

\* C15: when the lookup returns normally, on the batch path and on the
\* per-symbol path, every requested symbol is the source of exactly one
\* record of found or appears exactly once in not_found, never both and
\* never neither, and nothing else is in either; fetch_positions puts every
\* found record in exactly one of "genes" (is_standard) and "non_standard"
\* (not is_standard), so no record answers for an unresolved symbol.
C15_LookupPartition ==
    Answered =>
        /\ Len(source) = Len(found)
        /\ \A u \in Requested : Count(source, u) + Count(not_found, u) = 1
        /\ \A k \in 1..Len(source) : source[k] \in Requested
        /\ \A k \in 1..Len(not_found) : not_found[k] \in Requested
        /\ response.not_found = not_found
        /\ Len(response.genes) + Len(response.non_standard) = Len(found)
        /\ \A k \in 1..Len(response.genes) : response.genes[k].is_standard
        /\ \A k \in 1..Len(response.non_standard) :
               ~response.non_standard[k].is_standard
        /\ \A k \in 1..Len(found) :
               Count(response.genes, found[k]) + Count(response.non_standard, found[k])
                   = Count(found, found[k])

\* On the per-symbol path: one symbol resolved to a record on a
\* non-standard contig, the other request raised.
C15_Witness ==
    /\ Answered
    /\ reply.batch = "fail"
    /\ Len(found) = 1 /\ Len(not_found) = 1
    /\ reply.single[not_found[1]].status = "raise"
    /\ response.genes = <<>>
    /\ Len(response.non_standard) = 1

---------------------------------------------------------------------------
(* Properties of process_bed_file called on its own output *)

Twice == op = "process_bed_file twice"

\* C11: process_bed_file called on the frame it returned, with the same
\* toggles and extend_bp = 0, returns normally and returns the same rows in
\* the same order.
C11_PipelineIdempotent ==
    Twice => (again.err = "none" /\ again.rows = merged)

\* Two genes on chr1 and chr01 that tie on contig key and start, one of
\* them from a reversed record, come back as they were after an extension.
C11_Witness ==
    /\ Twice
    /\ extend_bp = 1
    /\ Len(df_in) = 2
    /\ \E i \in 1..2 : df_in[i].start > df_in[i].end
    /\ Len(merged) = 2
    /\ merged[1].start = merged[2].start
    /\ merged[1].chr # merged[2].chr
    /\ again.rows = merged

\* C12 as stated: the end-to-end example with the default toggles and no
\* extension yields the single row ("chr17", 30, 100, "A"), and whenever
\* retained records of one label carry a contig once bare and once with
\* the "chr" prefix, the row of that label carries the prefixed contig.
C12_EndToEndPrefixed ==
    Twice =>
        /\ (df_in = EndToEndExample /\ extend_bp = 0 /\ remove_alt /\ remove_fix)
               => merged = <<Row(chr17, 30, 100, geneA)>>
        /\ \A i, j \in Retained :
               (/\ df_in[i].gene = df_in[j].gene
                /\ ~StartsWith(df_in[i].chr, chrPrefix)
                /\ df_in[j].chr = chrPrefix \o df_in[i].chr)
               => \E k \in 1..Len(merged) :
                      merged[k].gene = df_in[i].gene /\ merged[k].chr = df_in[j].chr

\* C13 as stated: once process_bed_file has returned, the caller's frame
\* holds the records it held before the call, whatever the toggles and also
\* when a record with start > end was repaired inside the call.
C13_InputUnchanged ==
    Twice => df_after = df_in

\* C14: every label with a retained record has exactly one row; its contig
\* is that of the first retained record of the label in input order (so it
\* is fixed by the input and is never the contig of a filtered-out record),
\* and its start and end are the minimum and maximum over all retained
\* records of the label, whatever their contigs, extended by extend_bp with
\* the start clamped at 0.
C14_FirstContigWins ==
    Twice =>
        \A g \in Labels :
            RetainedOf(g) # {} =>
                /\ Cardinality({k \in 1..Len(merged) : merged[k].gene = g}) = 1
                /\ \A k \in 1..Len(merged) :
                       merged[k].gene = g =>
                           /\ merged[k].chr = df_in[SetMin(RetainedOf(g))].chr
                           /\ merged[k].start
                                  = (IF SpanStart(g) - extend_bp < 0 THEN 0
                                     ELSE SpanStart(g) - extend_bp)
                           /\ merged[k].end = SpanEnd(g) + extend_bp

\* A label on two contigs: the row has the contig of the first record and
\* the start of the second.
C14_Witness ==
    /\ Twice
    /\ extend_bp = 0
    /\ Len(df_in) = 2
    /\ df_in[1].gene = df_in[2].gene
    /\ df_in[1].chr = chr01 /\ df_in[2].chr = chr1
    /\ Lo(df_in[2]) < Lo(df_in[1])
    /\ Len(merged) = 1
    /\ merged[1].chr = chr01
    /\ merged[1].start = Lo(df_in[2])

====
